---- MODULE Spec2Model ----
(***************************************************************************)
(* picamfeedsplitter: a camera publisher (src/src/main.rs) that copies the *)
(* planes of each completed capture into a fixed-size Frame record         *)
(* (src/src/frame.rs) and publishes it over a shared-memory channel, and a *)
(* subscriber (src/examples/webrtc_streamer.rs) that strips stride padding *)
(* and pipes the frames to an encoder child process.                       *)
(*                                                                         *)
(* Spec    : the publisher process together with the camera HAL thread.    *)
(* FairSpec: Spec with the scheduling fairness of the HAL and of the loop. *)
(* SubSpec : the subscriber process together with its encoder child.       *)
(* DepadSpec: the stride removal functions applied to one frame.           *)
(***************************************************************************)
EXTENDS Integers, Sequences, FiniteSets, TLC

VARIABLES
    pubPc,        \* publisher main(): the statement it is at
    cfg,          \* negotiated stream configuration (actual_width, ..., pixel_format)
    requests,     \* `requests`: the prepared requests main() still owns
    camQueue,     \* requests queued at the camera (cam.queue_request), oldest first
    completions,  \* the mpsc channel tx -> rx: completed requests, oldest first
    held,         \* `req`: the request the capture loop holds (<<>> when none)
    seq,          \* `seq`
    started,      \* cam.start() has been called
    sink,         \* cam.on_request_completed() has been called
    clock,        \* the HAL's monotonic clock: number of captures completed
    published,    \* the last two samples handed to the transport (sample.send() Ok), in order
    handled,      \* history: the last two completions the loop has handled, in order
    owns,         \* the handles main() holds: "publisher" (the transport), "camera"
    copies,       \* history: completions the loop handled that copied at least one byte
    subPc,        \* subscriber main(): the statement it is at
    channel,      \* samples the transport holds for the subscriber, oldest first
    first_frame,  \* `first_frame` (<<>> until polled)
    enc,          \* width, height, stride, format, ffmpeg_pix_fmt, needs_depad, depad_fn
    depadded,     \* `depadded`: the scratch buffer
    child,        \* the encoder child: "none", "running", "exited", "reaped"
    stdin,        \* the subscriber holds the write end of the child's stdin pipe
    pipe,         \* the blocks written to the pipe (one per write_all), in order
    received,     \* history: the samples subscriber.receive() has returned, in order
    subExit       \* how the subscriber's main() ended (<<>> while it runs)

pubVars == <<pubPc, cfg, requests, camQueue, completions, held, seq, started,
             sink, clock, published, handled, owns, copies>>

subVars == <<subPc, channel, first_frame, enc, depadded, child, stdin, pipe,
             received, subExit>>

vars == <<pubVars, subVars>>

(***************************************************************************)
(* Bounds of the model                                                     *)
(***************************************************************************)
NBuf == 2          \* buffers the HAL allocates for the stream
MaxCaptures == 3   \* captures the HAL completes in one run
MaxPlanes == 2     \* planes of one frame buffer
MaxFrames == 3     \* frames the publisher sends while the subscriber runs

(***************************************************************************)
(* frame.rs                                                                *)
(***************************************************************************)
MAX_FRAME_SIZE == (1920 * 1080 * 3) \div 2

RECURSIVE Pow256(_)
Pow256(n) == IF n = 0 THEN 1 ELSE 256 * Pow256(n - 1)

\* u32::from_le_bytes of four ASCII bytes
FromLeBytes(b) == b[1] + b[2] * Pow256(1) + b[3] * Pow256(2) + b[4] * Pow256(3)

\* u32::to_le_bytes
ToLeBytes(x) == [i \in 1..4 |-> (x \div Pow256(i - 1)) % 256]

\* ASCII codes of the characters the FourCC table uses
Ascii(c) == CASE c = "Y" -> 89 [] c = "U" -> 85 [] c = "V" -> 86 [] c = "N" -> 78
              [] c = "1" -> 49 [] c = "2" -> 50
              [] c = "M" -> 77 [] c = "J" -> 74 [] c = "P" -> 80 [] c = "G" -> 71

Bytes(cs) == [i \in 1..Len(cs) |-> Ascii(cs[i])]

\* enum PixelFormat: the discriminants
PixelFormatValue(f) ==
    CASE f = "Yuv420" -> FromLeBytes(Bytes(<<"Y", "U", "1", "2">>))
      [] f = "Nv12" -> FromLeBytes(Bytes(<<"N", "V", "1", "2">>))
      [] f = "Nv21" -> FromLeBytes(Bytes(<<"N", "V", "2", "1">>))
      [] f = "Unknown" -> 0

PixelFormats == {"Yuv420", "Nv12", "Nv21", "Unknown"}

(***************************************************************************)
(* main.rs: startup                                                        *)
(***************************************************************************)
\* match &fourcc.to_le_bytes() { b"YU12" => .., b"NV12" => .., b"NV21" => .., _ => Unknown }
PixelFormatOf(fourcc) ==
    LET b == ToLeBytes(fourcc) IN
    IF b = Bytes(<<"Y", "U", "1", "2">>) THEN "Yuv420"
    ELSE IF b = Bytes(<<"N", "V", "1", "2">>) THEN "Nv12"
    ELSE IF b = Bytes(<<"N", "V", "2", "1">>) THEN "Nv21"
    ELSE "Unknown"

\* FourCC codes the HAL may negotiate: the three of the table and another one
FourCCs ==
    { FromLeBytes(Bytes(<<"Y", "U", "1", "2">>)),
      FromLeBytes(Bytes(<<"N", "V", "1", "2">>)),
      FromLeBytes(Bytes(<<"N", "V", "2", "1">>)),
      FromLeBytes(Bytes(<<"Y", "V", "1", "2">>)) }

\* (width, height, stride) the HAL may report for the stream
Geometries == { [width |-> 4, height |-> 2, stride |-> 4] }

\* What the HAL may report after validate() and configure(): one of the
\* uncompressed formats with a row stride, or a compressed format (MJPG),
\* whose stride is 0
HalConfigs ==
    { [fourcc |-> fourcc, width |-> g.width, height |-> g.height, stride |-> g.stride] :
        fourcc \in FourCCs, g \in Geometries }
    \cup { [fourcc |-> FromLeBytes(Bytes(<<"M", "J", "P", "G">>)),
            width |-> 4, height |-> 2, stride |-> 0] }

NoCfg == [fourcc |-> 0, width |-> 0, height |-> 0, stride |-> 0, format |-> "Unknown"]

Running == pubPc \in {"recv", "handle"}
Exited == pubPc \in {"exit_err", "panicked"}

\* The publisher before main() has run
PubInit ==
    /\ pubPc = "open_ipc"
    /\ cfg = NoCfg
    /\ requests = <<>>
    /\ camQueue = <<>>
    /\ completions = <<>>
    /\ held = <<>>
    /\ seq = 0
    /\ started = FALSE
    /\ sink = FALSE
    /\ clock = 0
    /\ published = <<>>
    /\ handled = <<>>
    /\ owns = {}
    /\ copies = 0

\* The subscriber is not part of the publisher's specification
SubOff ==
    /\ subPc = "off"
    /\ channel = <<>>
    /\ first_frame = <<>>
    /\ enc = <<>>
    /\ depadded = <<>>
    /\ child = "none"
    /\ stdin = FALSE
    /\ pipe = <<>>
    /\ received = <<>>
    /\ subExit = <<>>

Init == PubInit /\ SubOff

\* Mutant of After: the camera is started before the completion callback is
\* registered
AfterStartFirst(pc) ==
    CASE pc = "open_ipc" -> "acquire"
      [] pc = "acquire" -> "configure"
      [] pc = "configure" -> "alloc"
      [] pc = "alloc" -> "start"
      [] pc = "start" -> "register"
      [] pc = "register" -> "queue"
      [] pc = "queue" -> "recv"

\* main.rs 43-141: the order of the statements of main() up to the loop
After(pc) ==
    CASE pc = "open_ipc" -> "acquire"
      [] pc = "acquire" -> "configure"
      [] pc = "configure" -> "alloc"
      [] pc = "alloc" -> "register"
      [] pc = "register" -> "start"
      [] pc = "start" -> "queue"
      [] pc = "queue" -> "recv"

\* main.rs 43-58: node, service (open_or_create), publisher; `?` on each
OpenTransport ==
    /\ pubPc = "open_ipc"
    /\ \/ pubPc' = After(pubPc) /\ owns' = owns \cup {"publisher"}
       \/ pubPc' = "exit_err" /\ owns' = owns
    /\ UNCHANGED subVars
    /\ UNCHANGED copies
    /\ UNCHANGED <<cfg, requests, camQueue, completions, held, seq, started, sink,
                   clock, published, handled>>

\* main.rs 60-69: cameras.get(0).ok_or(NoCamera)?, acquire, generate_configuration
AcquireCamera ==
    /\ pubPc = "acquire"
    /\ \/ pubPc' = After(pubPc) /\ owns' = owns \cup {"camera"}
       \/ pubPc' = "exit_err" /\ owns' = owns
    /\ UNCHANGED subVars
    /\ UNCHANGED copies
    /\ UNCHANGED <<cfg, requests, camQueue, completions, held, seq, started, sink,
                   clock, published, handled>>

\* main.rs 71-95: set_size, validate (Invalid is fatal, Adjusted is accepted),
\* configure, and the read-back of size, stride and pixel format
Configure ==
    /\ pubPc = "configure"
    /\ \E status \in {"Valid", "Adjusted", "Invalid"}, c \in HalConfigs :
          IF status = "Invalid"
          THEN pubPc' = "exit_err" /\ cfg' = cfg
          ELSE /\ pubPc' = After(pubPc)
               /\ cfg' = [fourcc |-> c.fourcc, width |-> c.width, height |-> c.height,
                          stride |-> c.stride, format |-> PixelFormatOf(c.fourcc)]
    /\ UNCHANGED subVars
    /\ UNCHANGED <<owns, copies>>
    /\ UNCHANGED <<requests, camQueue, completions, held, seq, started, sink,
                   clock, published, handled>>

\* main.rs 97-120: allocate and map the buffers, one request per buffer with the
\* buffer attached
AllocRequests ==
    /\ pubPc = "alloc"
    /\ requests' = [i \in 1..NBuf |-> [id |-> i, buffers |-> 1]]
    /\ pubPc' = After(pubPc)
    /\ UNCHANGED subVars
    /\ UNCHANGED <<owns, copies>>
    /\ UNCHANGED <<cfg, camQueue, completions, held, seq, started, sink, clock,
                   published, handled>>

\* main.rs 124-127: the channel and the completion callback
RegisterSink ==
    /\ pubPc = "register"
    /\ sink' = TRUE
    /\ pubPc' = After(pubPc)
    /\ UNCHANGED subVars
    /\ UNCHANGED <<owns, copies>>
    /\ UNCHANGED <<cfg, requests, camQueue, completions, held, seq, started, clock,
                   published, handled>>

\* main.rs 129-130: cam.start(None)?
StartCamera ==
    /\ pubPc = "start"
    /\ \/ started' = TRUE /\ pubPc' = After(pubPc)
       \/ started' = started /\ pubPc' = "exit_err"
    /\ UNCHANGED subVars
    /\ UNCHANGED <<owns, copies>>
    /\ UNCHANGED <<cfg, requests, camQueue, completions, held, seq, sink, clock,
                   published, handled>>

\* main.rs 132-135: one turn of `for req in requests { cam.queue_request(req)? }`,
\* and the fall through to `let mut seq = 0; loop {` once the list is exhausted
QueueInitial ==
    /\ pubPc = "queue"
    /\ IF requests = <<>>
       THEN pubPc' = After(pubPc) /\ UNCHANGED <<requests, camQueue>>
       ELSE \/ /\ camQueue' = Append(camQueue, Head(requests))
               /\ requests' = Tail(requests)
               /\ pubPc' = pubPc
            \/ /\ requests' = Tail(requests)
               /\ camQueue' = camQueue
               /\ pubPc' = "exit_err"
    /\ UNCHANGED subVars
    /\ UNCHANGED <<owns, copies>>
    /\ UNCHANGED <<cfg, completions, held, seq, started, sink, clock, published, handled>>

(***************************************************************************)
(* The camera HAL                                                          *)
(***************************************************************************)
\* The HAL thread completes the oldest queued request and runs the callback
\* main.rs 125-127: tx.send(req)
HalComplete ==
    /\ started
    /\ ~Exited
    /\ camQueue # <<>>
    /\ clock < MaxCaptures
    /\ clock' = clock + 1
    /\ camQueue' = Tail(camQueue)
    /\ completions' = IF sink
                      THEN Append(completions, [req |-> Head(camQueue), ts |-> clock + 1])
                      ELSE completions
    /\ UNCHANGED subVars
    /\ UNCHANGED <<owns, copies>>
    /\ UNCHANGED <<pubPc, cfg, requests, held, seq, started, sink, published, handled>>

(***************************************************************************)
(* main.rs: the capture loop                                               *)
(***************************************************************************)
\* One plane of a frame buffer: the mapped length (plane_data.len()) and the
\* plane's metadata entry (plane_metadata.get(i)): <<>> when there is none,
\* <<bytes_used>> otherwise.
Planes ==
    { [length |-> 0, meta |-> <<0>>],
      [length |-> 1, meta |-> <<>>],
      [length |-> MAX_FRAME_SIZE - 1, meta |-> <<MAX_FRAME_SIZE - 1>>],
      [length |-> MAX_FRAME_SIZE + 1, meta |-> <<MAX_FRAME_SIZE + 1>>],
      [length |-> 1, meta |-> <<2>>] }

RECURSIVE SeqsUpTo(_, _)
SeqsUpTo(S, n) ==
    IF n = 0 THEN {<<>>}
    ELSE LET shorter == SeqsUpTo(S, n - 1) IN
         shorter \cup {Append(q, x) : q \in {r \in shorter : Len(r) = n - 1}, x \in S}

\* fb.data() with metadata.planes(): the plane lists a completed buffer may carry
PlaneLists == SeqsUpTo(Planes, MaxPlanes)

\* main.rs 170-173: plane_metadata.get(i).map(|p| p.bytes_used).unwrap_or(plane_data.len())
BytesUsed(plane) == IF plane.meta = <<>> THEN plane.length ELSE plane.meta[1]

\* Mutant of TooLarge: a frame of exactly MAX_FRAME_SIZE bytes is refused
TooLargeInclusive(offset, bytes_used) == offset + bytes_used >= MAX_FRAME_SIZE

\* main.rs 175: the oversize test
TooLarge(offset, bytes_used) == offset + bytes_used > MAX_FRAME_SIZE

\* main.rs 166-182: the plane loop from plane i on, with the running offset and
\* the runs copied so far. end: "done" (all planes copied), "too_large" (the break
\* at 177), "panic" (the slice plane_data[..bytes_used] at 180 is out of range).
RECURSIVE CopyFrom(_, _, _, _)
CopyFrom(planes, i, offset, data) ==
    IF i > Len(planes)
    THEN [offset |-> offset, data |-> data, end |-> "done"]
    ELSE LET bytes_used == BytesUsed(planes[i]) IN
         IF TooLarge(offset, bytes_used)
         THEN [offset |-> offset, data |-> data, end |-> "too_large"]
         ELSE IF bytes_used > planes[i].length
         THEN [offset |-> offset, data |-> data, end |-> "panic"]
         ELSE CopyFrom(planes, i + 1, offset + bytes_used,
                       Append(data, [plane |-> i, bytes |-> bytes_used]))

CopyPlanes(planes) == CopyFrom(planes, 1, 0, <<>>)

\* What the plane loop can leave behind, over the buffers the HAL may complete
CopyResults == {CopyPlanes(planes) : planes \in PlaneLists}

\* main.rs 184: the frame is published when any byte was copied
ShouldPublish(offset) == offset > 0

\* main.rs 187-196: the Frame written into the loaned sample. Its data array
\* holds the bytes the plane loop copied (copied.data) in data[..len] and zeros
\* after them; the publisher's specification keeps the header fields only.
MakeFrame(ts, copied) ==
    [timestamp_ns |-> ts, sequence |-> seq, width |-> cfg.width,
     height |-> cfg.height, stride |-> cfg.stride, format |-> cfg.format,
     len |-> copied.offset]

\* Mutant of NextSeq: the counter advances for every completion that reaches
\* the publish test
NextSeqAlways(s, offset) == s + 1

\* Mutant of NextSeq: the counter is never advanced
NextSeqStuck(s, offset) == s

\* main.rs 205: seq += 1, inside `if offset > 0`
NextSeq(s, offset) == IF ShouldPublish(offset) THEN s + 1 ELSE s

\* The last two entries of a history
Recent(h) == IF Len(h) > 2 THEN Tail(h) ELSE h

\* main.rs 143: rx.recv() blocks until the callback has sent a request
LoopRecv ==
    /\ pubPc = "recv"
    /\ completions # <<>>
    /\ held' = <<Head(completions)>>
    /\ completions' = Tail(completions)
    /\ pubPc' = "handle"
    /\ UNCHANGED subVars
    /\ UNCHANGED <<owns, copies>>
    /\ UNCHANGED <<cfg, requests, camQueue, seq, started, sink, clock, published, handled>>

\* Mutant of Requeue: the request is dropped instead of queued
RequeueDropsRequest(ok) ==
    /\ held' = <<>>
    /\ camQueue' = camQueue
    /\ pubPc' = IF ok THEN "recv" ELSE "exit_err"

\* main.rs 211: req.reuse(ReuseFlag::REUSE_BUFFERS): the request is reset and
\* keeps the buffers attached to it
Reuse(req) == [req EXCEPT !.buffers = req.buffers]

\* main.rs 211-213: req.reuse(REUSE_BUFFERS); cam.queue_request(req)?
Requeue(ok) ==
    /\ held' = <<>>
    /\ IF ok
       THEN camQueue' = Append(camQueue, Reuse(held[1].req)) /\ pubPc' = "recv"
       ELSE camQueue' = camQueue /\ pubPc' = "exit_err"

\* main.rs 145-151: req.buffer(&stream) is None: warn and `continue`; the
\* request goes out of scope at the end of the iteration
HandleNoBuffer ==
    /\ pubPc = "handle"
    /\ held' = <<>>
    /\ pubPc' = "recv"
    /\ handled' = Recent(Append(handled, [fault |-> "no_buffer", outcome |-> "none",
                                          seq |-> seq, requeued |-> FALSE,
                                          copied |-> FALSE]))
    /\ UNCHANGED subVars
    /\ UNCHANGED <<owns, copies>>
    /\ UNCHANGED <<cfg, requests, camQueue, completions, seq, started, sink, clock,
                   published>>

\* main.rs 153-159: fb.metadata() is None: warn and `continue`
HandleNoMetadata ==
    /\ pubPc = "handle"
    /\ held' = <<>>
    /\ pubPc' = "recv"
    /\ handled' = Recent(Append(handled, [fault |-> "no_metadata", outcome |-> "none",
                                          seq |-> seq, requeued |-> FALSE,
                                          copied |-> FALSE]))
    /\ UNCHANGED subVars
    /\ UNCHANGED <<owns, copies>>
    /\ UNCHANGED <<cfg, requests, camQueue, completions, seq, started, sink, clock,
                   published>>

\* main.rs 161-213: copy the planes, publish, advance seq, recycle the request.
\* loan: publisher.loan_uninit() is Ok; sent: sample.send() is Ok (its result is
\* discarded at 197); queued: cam.queue_request() is Ok.
HandleFrame ==
    /\ pubPc = "handle"
    /\ \E copied \in CopyResults :
          LET ts == held[1].ts
          IN  IF copied.end = "panic"
              THEN /\ pubPc' = "panicked"
                   /\ UNCHANGED <<camQueue, held, seq, published, handled, copies>>
              ELSE \E loan \in IF ShouldPublish(copied.offset) THEN BOOLEAN ELSE {FALSE},
                      sent \in IF ShouldPublish(copied.offset) THEN BOOLEAN ELSE {FALSE},
                      queued \in BOOLEAN :
                   /\ loan \/ ~sent
                   /\ published' = IF ShouldPublish(copied.offset) /\ loan /\ sent
                                   THEN Recent(Append(published, MakeFrame(ts, copied)))
                                   ELSE published
                   /\ seq' = NextSeq(seq, copied.offset)
                   /\ Requeue(queued)
                   /\ handled' = Recent(Append(handled,
                        [fault |-> IF copied.end = "too_large" THEN "too_large" ELSE "none",
                         outcome |-> IF ~ShouldPublish(copied.offset) THEN "none"
                                     ELSE IF ~loan THEN "loan_failed"
                                     ELSE IF ~sent THEN "send_failed"
                                     ELSE "sent",
                         seq |-> seq, requeued |-> queued,
                         copied |-> copied.offset > 0]))
                   /\ copies' = IF copied.offset > 0 THEN copies + 1 ELSE copies
    /\ UNCHANGED subVars
    /\ UNCHANGED owns
    /\ UNCHANGED <<cfg, requests, completions, started, sink, clock>>

Next ==
    \/ OpenTransport
    \/ AcquireCamera
    \/ Configure
    \/ AllocRequests
    \/ RegisterSink
    \/ StartCamera
    \/ QueueInitial
    \/ HalComplete
    \/ LoopRecv
    \/ HandleNoBuffer
    \/ HandleNoMetadata
    \/ HandleFrame

Spec == Init /\ [][Next]_vars

\* The HAL eventually completes a queued request, and the main thread runs.
FairSpec ==
    /\ Spec
    /\ WF_vars(HalComplete)
    /\ WF_vars(LoopRecv)
    /\ WF_vars(HandleNoBuffer \/ HandleNoMetadata \/ HandleFrame)

(***************************************************************************)
(* Properties of the publisher                                             *)
(***************************************************************************)
Last(h) == h[Len(h)]

\* A step in which the capture loop finishes handling one completion
Handles == pubPc = "handle" /\ pubPc' \in {"recv", "exit_err"}

\* Requests owned by main(), by the camera or by the channel
Circulation == Len(requests) + Len(camQueue) + Len(completions) + Len(held)

\* C1: when a capture is dropped as oversize between two successful publishes,
\* with no other drop in between, the later frame carries a sequence exactly
\* two greater than the earlier one.
C1_SequenceSkipsOneOnOversizeDrop ==
    [][ ( /\ Handles
          /\ Len(handled) = 2
          /\ handled[1].fault = "none" /\ handled[1].outcome = "sent"
          /\ handled[2].fault = "too_large"
          /\ Last(handled').fault = "none" /\ Last(handled').outcome = "sent" )
        => Last(published').sequence = handled[1].seq + 2 ]_vars

\* C2: while the capture loop runs, every allocated request is queued at the
\* camera, waiting in the completion queue or held by the loop.
C2_AllRequestsInCirculation == Running => Circulation = NBuf

\* C3: handling a capture whose planes would exceed MAX_FRAME_SIZE hands no
\* sample to the transport.
C3_OversizeCaptureNotPublished ==
    [][ (Handles /\ Last(handled').fault = "too_large") => published' = published ]_vars

\* C5: the capture loop never waits on an empty completion queue with no
\* request left at the camera for the HAL to complete, and no per-frame fault
\* ends the process.
C5_LoopNeverStarves ==
    /\ (pubPc = "recv" /\ completions = <<>>) => camQueue # <<>>
    /\ (pubPc = "exit_err" /\ handled # <<>>) => ~Last(handled).requeued

\* C6: samples reach the transport with strictly increasing sequence numbers
\* and capture timestamps; sequence numbers start at 0 and never run ahead of
\* the number of captures.
C6_SequenceFollowsCaptureOrder ==
    /\ Len(published) = 2 =>
          /\ published[1].sequence < published[2].sequence
          /\ published[1].timestamp_ns < published[2].timestamp_ns
    /\ \A i \in 1..Len(published) :
          /\ 0 <= published[i].sequence
          /\ published[i].sequence < seq
          /\ published[i].sequence < published[i].timestamp_ns
    /\ handled = <<>> => seq = 0

C6_Witness ==
    /\ Len(published) = 2
    /\ published[1].sequence = 0
    /\ published[2].sequence = 2
    /\ Len(handled) = 2
    /\ handled[1].outcome = "loan_failed"

\* C8: a loan failure sends nothing, advances the sequence counter by exactly
\* one, and the request goes back to the camera; the loop goes on unless
\* queue_request itself fails.
C8_LoanFailureConsumesSequence ==
    [][ (Handles /\ Last(handled').outcome = "loan_failed")
        => /\ published' = published
           /\ seq' = seq + 1
           /\ held' = <<>>
           /\ IF Last(handled').requeued
              THEN pubPc' = "recv" /\ camQueue' = Append(camQueue, held[1].req)
              ELSE pubPc' = "exit_err" ]_vars

C8_Witness ==
    /\ handled # <<>>
    /\ Last(handled).outcome = "loan_failed"
    /\ pubPc = "recv"
    /\ seq = Last(handled).seq + 1
    /\ camQueue # <<>>

(***************************************************************************)
(* webrtc_streamer.rs: stride removal                                      *)
(***************************************************************************)
\* The Rust slice d[a..b] of a sequence; it panics unless a <= b <= d.len()
InRange(d, a, b) == a <= b /\ b <= Len(d)
Slice(d, a, b) == SubSeq(d, a + 1, b)

\* The outcome of a depad call: the scratch buffer, or a panic
Panicked == [panic |-> TRUE, out |-> <<>>]
Done(out) == [panic |-> FALSE, out |-> out]

\* Mutant of Clear: the scratch buffer keeps the previous frame
ClearKeeps(out) == out

\* out.clear() (webrtc_streamer.rs 40, 68)
Clear(out) == SubSeq(out, 1, 0)

\* Mutant of ExtendRows: the source rows are taken to be as wide as the
\* destination rows, so the padding is not stepped over
RECURSIVE ExtendRowsNoStride(_, _, _, _, _, _)
ExtendRowsNoStride(plane, srow, drow, n, row, out) ==
    IF row >= n THEN Done(out)
    ELSE IF ~InRange(plane, row * drow, row * drow + drow) THEN Panicked
    ELSE ExtendRowsNoStride(plane, srow, drow, n, row + 1,
                            out \o Slice(plane, row * drow, row * drow + drow))

\* Mutant of ExtendRows: the last row of each plane is not copied
RECURSIVE ExtendRowsShort(_, _, _, _, _, _)
ExtendRowsShort(plane, srow, drow, n, row, out) ==
    IF row >= n - 1 THEN Done(out)
    ELSE IF ~InRange(plane, row * srow, row * srow + drow) THEN Panicked
    ELSE ExtendRowsShort(plane, srow, drow, n, row + 1,
                         out \o Slice(plane, row * srow, row * srow + drow))

\* for row in 0..n { out.extend_from_slice(&plane[row * srow..row * srow + drow]); }
RECURSIVE ExtendRows(_, _, _, _, _, _)
ExtendRows(plane, srow, drow, n, row, out) ==
    IF row >= n THEN Done(out)
    ELSE IF ~InRange(plane, row * srow, row * srow + drow) THEN Panicked
    ELSE ExtendRows(plane, srow, drow, n, row + 1,
                    out \o Slice(plane, row * srow, row * srow + drow))

\* webrtc_streamer.rs 33-58
depad_yuv420(data, width, height, stride, out) ==
    LET w == width
        h == height
        s == stride
        cleared == Clear(out)
        u_offset == s * h
        v_offset == u_offset + (s \div 2) * (h \div 2)
    IN  IF ~InRange(data, 0, s * h) THEN Panicked
        ELSE LET y == ExtendRows(Slice(data, 0, s * h), s, w, h, 0, cleared) IN
        IF y.panic THEN Panicked
        ELSE IF ~InRange(data, u_offset, u_offset + (s \div 2) * (h \div 2)) THEN Panicked
        ELSE LET u == ExtendRows(Slice(data, u_offset, u_offset + (s \div 2) * (h \div 2)),
                                 s \div 2, w \div 2, h \div 2, 0, y.out) IN
        IF u.panic THEN Panicked
        ELSE IF ~InRange(data, v_offset, v_offset + (s \div 2) * (h \div 2)) THEN Panicked
        ELSE ExtendRows(Slice(data, v_offset, v_offset + (s \div 2) * (h \div 2)),
                        s \div 2, w \div 2, h \div 2, 0, u.out)

\* webrtc_streamer.rs 61-79
depad_nv12(data, width, height, stride, out) ==
    LET w == width
        h == height
        s == stride
        cleared == Clear(out)
        uv_offset == s * h
    IN  IF ~InRange(data, 0, s * h) THEN Panicked
        ELSE LET y == ExtendRows(Slice(data, 0, s * h), s, w, h, 0, cleared) IN
        IF y.panic THEN Panicked
        ELSE IF ~InRange(data, uv_offset, uv_offset + s * (h \div 2)) THEN Panicked
        ELSE ExtendRows(Slice(data, uv_offset, uv_offset + s * (h \div 2)),
                        s, w, h \div 2, 0, y.out)

(***************************************************************************)
(* webrtc_streamer.rs: main                                                *)
(***************************************************************************)
\* Mutant of FfmpegPixFmt: every semi-planar format is given to the encoder as nv12
FfmpegPixFmtAllNv12(format) == IF format = "Yuv420" THEN "yuv420p" ELSE "nv12"

\* webrtc_streamer.rs 110-118
FfmpegPixFmt(format) ==
    CASE format = "Yuv420" -> "yuv420p"
      [] format = "Nv12" -> "nv12"
      [] format = "Nv21" -> "nv21"
      [] format = "Unknown" -> "nv12"

\* Mutant of DepadFnFor: a format outside the table gets the planar strategy
DepadFnForPlanarDefault(format) ==
    IF format \in {"Nv12", "Nv21"} THEN "depad_nv12" ELSE "depad_yuv420"

\* webrtc_streamer.rs 154-157
DepadFnFor(format) == IF format = "Yuv420" THEN "depad_yuv420" ELSE "depad_nv12"

\* a call through depad_fn
CallDepad(fn, data, width, height, stride, out) ==
    IF fn = "depad_yuv420"
    THEN depad_yuv420(data, width, height, stride, out)
    ELSE depad_nv12(data, width, height, stride, out)

\* (width, height, stride) of the sessions the subscriber is run against
SubGeometries == { [width |-> 4, height |-> 2, stride |-> 4],
                   [width |-> 2, height |-> 2, stride |-> 4] }

\* len of the records the publisher sends: the planes as the HAL lays them out,
\* stride * height * 3 / 2 bytes, or one byte short of that
SubLens == { (cfg.stride * cfg.height * 3) \div 2, (cfg.stride * cfg.height * 3) \div 2 - 1 }

\* The Frame record with sequence q, as main.rs 187-196 fills it; the bytes of
\* data[..len] differ from place to place and from frame to frame.
SubFrame(q, len) ==
    [timestamp_ns |-> q + 1, sequence |-> q, width |-> cfg.width,
     height |-> cfg.height, stride |-> cfg.stride, format |-> cfg.format,
     len |-> len, data |-> [i \in 1..len |-> (q * 64 + i) % 256]]

\* &payload.data[..payload.len as usize]
Payload(f) == Slice(f.data, 0, f.len)

\* webrtc_streamer.rs 161-166 and 174-179: the bytes handed to write_all for one
\* sample, and the scratch buffer afterwards
Block(f) ==
    IF enc[1].needs_depad
    THEN CallDepad(enc[1].depad_fn, Payload(f), enc[1].width, enc[1].height,
                   enc[1].stride, depadded)
    ELSE Done(Payload(f))

\* Mutant of Written: the block is not written
WrittenNothing(p, block) == p

\* stdin.write_all(block) returning Ok: the block is in the pipe, after the others
Written(p, block) == Append(p, block)

\* main() returns, or the process panics: the pipe handle is dropped with the
\* rest of main's locals, the child is not waited for
Leave(code, error) ==
    /\ subExit' = <<[code |-> code, error |-> error]>>
    /\ stdin' = FALSE

\* A subscriber session: the publisher has negotiated cfg and is in its loop
SubInit ==
    /\ \E g \in SubGeometries, fourcc \in FourCCs :
          cfg = [fourcc |-> fourcc, width |-> g.width, height |-> g.height,
                 stride |-> g.stride, format |-> PixelFormatOf(fourcc)]
    /\ pubPc = "recv"
    /\ requests = <<>>
    /\ camQueue = <<>>
    /\ completions = <<>>
    /\ held = <<>>
    /\ seq = 0
    /\ started = TRUE
    /\ sink = TRUE
    /\ clock = 0
    /\ published = <<>>
    /\ handled = <<>>
    /\ owns = {"publisher", "camera"}
    /\ copies = 0
    /\ subPc = "open"
    /\ channel = <<>>
    /\ first_frame = <<>>
    /\ enc = <<>>
    /\ depadded = <<>>
    /\ child = "none"
    /\ stdin = FALSE
    /\ pipe = <<>>
    /\ received = <<>>
    /\ subExit = <<>>

\* The publisher sends its next sample (main.rs 184-205); the transport queues
\* it for the subscriber, or drops it when the subscriber is not keeping up.
Deliver ==
    /\ subExit = <<>>
    /\ seq < MaxFrames
    /\ seq' = seq + 1
    /\ clock' = clock + 1
    /\ \/ \E len \in SubLens : channel' = Append(channel, SubFrame(seq, len))
       \/ channel' = channel
    /\ UNCHANGED <<pubPc, cfg, requests, camQueue, completions, held, started, sink,
                   published, handled, owns, copies>>
    /\ UNCHANGED <<subPc, first_frame, enc, depadded, child, stdin, pipe, received, subExit>>

\* The encoder child terminates on its own
ChildExit ==
    /\ child = "running"
    /\ subExit = <<>>
    /\ child' = "exited"
    /\ UNCHANGED pubVars
    /\ UNCHANGED <<subPc, channel, first_frame, enc, depadded, stdin, pipe, received, subExit>>

\* webrtc_streamer.rs 85-94: node, service (open), subscriber; `?` on each
SubOpen ==
    /\ subPc = "open"
    /\ \/ subPc' = "poll_first" /\ UNCHANGED <<stdin, subExit>>
       \/ subPc' = "exited" /\ Leave(1, "transport")
    /\ UNCHANGED pubVars
    /\ UNCHANGED <<channel, first_frame, enc, depadded, child, pipe, received>>

\* webrtc_streamer.rs 98-103: poll until receive() yields the first sample
PollFirst ==
    /\ subPc = "poll_first"
    /\ \/ /\ channel # <<>>
          /\ first_frame' = <<Head(channel)>>
          /\ channel' = Tail(channel)
          /\ received' = Append(received, Head(channel))
          /\ subPc' = "setup"
          /\ UNCHANGED <<stdin, subExit>>
       \/ /\ subPc' = "exited"
          /\ Leave(1, "transport")
          /\ UNCHANGED <<channel, first_frame, received>>
    /\ UNCHANGED pubVars
    /\ UNCHANGED <<enc, depadded, child, pipe>>

\* webrtc_streamer.rs 105-118 and 151-157: what main() keeps of the first frame
EncOf(f) ==
    [width |-> f.width,
     height |-> f.height,
     stride |-> f.stride,
     format |-> f.format,
     ffmpeg_pix_fmt |-> FfmpegPixFmt(f.format),
     needs_depad |-> f.stride # f.width,
     depad_fn |-> DepadFnFor(f.format)]

\* webrtc_streamer.rs 105-157: geometry and format of the first frame, the
\* encoder's pixel format, the spawn of the child (`?`), the scratch buffer,
\* needs_depad and depad_fn
Setup ==
    /\ subPc = "setup"
    /\ \/ /\ enc' = <<EncOf(first_frame[1])>>
          /\ child' = "running"
          /\ stdin' = TRUE
          /\ subPc' = "write_first"
          /\ UNCHANGED subExit
       \/ /\ subPc' = "exited"
          /\ Leave(1, "spawn")
          /\ UNCHANGED <<enc, child>>
    /\ UNCHANGED pubVars
    /\ UNCHANGED <<channel, first_frame, depadded, pipe, received>>

\* webrtc_streamer.rs 159-166: the first frame is depadded and written; a
\* write error leaves main() through `?`
WriteFirst ==
    /\ subPc = "write_first"
    /\ LET block == Block(first_frame[1]) IN
       IF block.panic
       THEN /\ subPc' = "panicked"
            /\ Leave(101, "panic")
            /\ UNCHANGED <<depadded, pipe>>
       ELSE /\ depadded' = IF enc[1].needs_depad THEN block.out ELSE depadded
            /\ IF child = "running"
               THEN /\ pipe' = Written(pipe, block.out)
                    /\ subPc' = "loop"
                    /\ UNCHANGED <<stdin, subExit>>
               ELSE /\ subPc' = "exited"
                    /\ Leave(1, "pipe")
                    /\ UNCHANGED pipe
    /\ UNCHANGED pubVars
    /\ UNCHANGED <<channel, first_frame, enc, child, received>>

\* webrtc_streamer.rs 170-194: one turn of the main loop that receives a sample
\* (or a transport error); a write error breaks out of the loop
LoopReceive ==
    /\ subPc = "loop"
    /\ \/ /\ channel # <<>>
          /\ channel' = Tail(channel)
          /\ received' = Append(received, Head(channel))
          /\ LET block == Block(Head(channel)) IN
             IF block.panic
             THEN /\ subPc' = "panicked"
                  /\ Leave(101, "panic")
                  /\ UNCHANGED <<depadded, pipe>>
             ELSE /\ depadded' = IF enc[1].needs_depad THEN block.out ELSE depadded
                  /\ UNCHANGED <<stdin, subExit>>
                  /\ IF child = "running"
                     THEN pipe' = Written(pipe, block.out) /\ subPc' = "loop"
                     ELSE pipe' = pipe /\ subPc' = "finish"
       \/ /\ subPc' = "exited"
          /\ Leave(1, "transport")
          /\ UNCHANGED <<channel, received, depadded, pipe>>
    /\ UNCHANGED pubVars
    /\ UNCHANGED <<first_frame, enc, child>>

\* webrtc_streamer.rs 196-198: drop(stdin); ffmpeg.wait()?; Ok(())
Finish ==
    /\ subPc = "finish"
    /\ child = "exited"
    /\ child' = "reaped"
    /\ subPc' = "exited"
    /\ Leave(0, "none")
    /\ UNCHANGED pubVars
    /\ UNCHANGED <<channel, first_frame, enc, depadded, pipe, received>>

SubNext ==
    \/ Deliver
    \/ ChildExit
    \/ SubOpen
    \/ PollFirst
    \/ Setup
    \/ WriteFirst
    \/ LoopReceive
    \/ Finish

SubSpec == SubInit /\ [][SubNext]_vars

(***************************************************************************)
(* Properties of the subscriber                                            *)
(***************************************************************************)
\* C4: a failed write to the encoder pipe never makes the subscriber exit
\* with an error, and a subscriber that exits with success has dropped its
\* pipe handle and reaped the child.
C4_PipeWriteErrorEndsCleanly ==
    /\ subExit # <<>> => subExit[1].error # "pipe"
    /\ (subExit # <<>> /\ subExit[1].code = 0) => (child = "reaped" /\ ~stdin)

\* The block one sample contributes, computed from the sample alone
ExpectedBlock(f) ==
    IF enc[1].needs_depad
    THEN CallDepad(enc[1].depad_fn, Payload(f), enc[1].width, enc[1].height,
                   enc[1].stride, <<>>).out
    ELSE Payload(f)

\* C7: the pipe holds one block per received sample, in receive order and
\* starting with the first polled frame; between two turns of the loop every
\* received sample has been written.
C7_OneBlockPerSampleInOrder ==
    /\ Len(pipe) <= Len(received)
    /\ \A i \in 1..Len(pipe) : pipe[i] = ExpectedBlock(received[i])
    /\ subPc = "loop" => Len(pipe) = Len(received)
    /\ subPc = "write_first" => (pipe = <<>> /\ received = first_frame)
    /\ first_frame # <<>> => received[1] = first_frame[1]
    /\ \A i \in 1..Len(received) : \A j \in 1..Len(received) :
          i < j => received[i].sequence < received[j].sequence

C7_Witness ==
    /\ subPc = "loop"
    /\ Len(pipe) = 3
    /\ enc[1].needs_depad
    /\ pipe[1] = ExpectedBlock(first_frame[1])
    /\ pipe[1] # pipe[2]
    /\ pipe[2] # pipe[3]

\* C9 as claimed: Yuv420 gives yuv420p; Nv12, Nv21 and Unknown give nv12.
C9_PixFmtAsClaimed ==
    enc # <<>> =>
       /\ first_frame[1].format = "Yuv420" => enc[1].ffmpeg_pix_fmt = "yuv420p"
       /\ first_frame[1].format \in {"Nv12", "Nv21", "Unknown"} =>
             enc[1].ffmpeg_pix_fmt = "nv12"

\* C9, amended: Yuv420 gives yuv420p, Nv12 gives nv12, Nv21 gives nv21 and
\* Unknown gives nv12.
C9_PixFmtFollowsFirstFrame ==
    enc # <<>> =>
       /\ first_frame[1].format = "Yuv420" => enc[1].ffmpeg_pix_fmt = "yuv420p"
       /\ first_frame[1].format = "Nv12" => enc[1].ffmpeg_pix_fmt = "nv12"
       /\ first_frame[1].format = "Nv21" => enc[1].ffmpeg_pix_fmt = "nv21"
       /\ first_frame[1].format = "Unknown" => enc[1].ffmpeg_pix_fmt = "nv12"
       /\ first_frame[1].format \in PixelFormats

C9_Witness ==
    /\ enc # <<>>
    /\ first_frame[1].format = "Nv21"
    /\ enc[1].ffmpeg_pix_fmt = "nv21"
    /\ child = "running"

\* The FourCC codes of the table at main.rs 89-91
KnownFourCCs == {PixelFormatValue(f) : f \in PixelFormats \ {"Unknown"}}

\* Bytes of a frame laid out as two planes of stride-wide rows
Nv12PaddedLen(f) == f.stride * f.height + f.stride * (f.height \div 2)

MaxCalls == 2      \* calls of the depad function on one scratch buffer

\* even widths and heights, and the padding stride - width of a row
DepadWidths == {2, 4}
DepadHeights == {2, 4}
Paddings == {0, 1, 2, 16}

\* The bytes the depad function of a format reads: the end of its last plane
\* (webrtc_streamer.rs 42-44 and 55; 69-70 and 76)
DepadInputLen(fn, height, stride) ==
    IF fn = "depad_yuv420"
    THEN stride * height + 2 * ((stride \div 2) * (height \div 2))
    ELSE stride * height + stride * (height \div 2)

\* data[..len] for the lengths around what the function reads
DepadLens(fn, height, stride) ==
    { DepadInputLen(fn, height, stride) - 1,
      DepadInputLen(fn, height, stride),
      DepadInputLen(fn, height, stride) + 1 }

\* One frame of one geometry and format, and an empty scratch buffer
\* (webrtc_streamer.rs 150: Vec::with_capacity)
DepadInit ==
    /\ \E w \in DepadWidths, h \in DepadHeights, k \in Paddings, fourcc \in FourCCs :
          /\ cfg = [fourcc |-> fourcc, width |-> w, height |-> h, stride |-> w + k,
                    format |-> PixelFormatOf(fourcc)]
          /\ \E len \in DepadLens(DepadFnFor(PixelFormatOf(fourcc)), h, w + k) :
                first_frame = <<SubFrame(0, len)>>
    /\ enc = <<EncOf(first_frame[1])>>
    /\ pubPc = "recv"
    /\ requests = <<>>
    /\ camQueue = <<>>
    /\ completions = <<>>
    /\ held = <<>>
    /\ seq = 0
    /\ started = TRUE
    /\ sink = TRUE
    /\ clock = 0
    /\ published = <<>>
    /\ handled = <<>>
    /\ owns = {"publisher", "camera"}
    /\ copies = 0
    /\ subPc = "depad"
    /\ channel = <<>>
    /\ depadded = <<>>
    /\ child = "none"
    /\ stdin = FALSE
    /\ pipe = <<>>
    /\ received = <<>>
    /\ subExit = <<>>

\* depad_fn(data, width, height, stride, &mut depadded) (webrtc_streamer.rs 163,
\* 176) on the frame, again and again on the same scratch buffer; pipe keeps
\* the scratch buffer as each call left it
DepadCall ==
    /\ subPc = "depad"
    /\ Len(pipe) < MaxCalls
    /\ LET r == CallDepad(enc[1].depad_fn, Payload(first_frame[1]), enc[1].width,
                          enc[1].height, enc[1].stride, depadded)
       IN  IF r.panic
           THEN subPc' = "panicked" /\ UNCHANGED <<depadded, pipe>>
           ELSE subPc' = subPc /\ depadded' = r.out /\ pipe' = Append(pipe, r.out)
    /\ UNCHANGED pubVars
    /\ UNCHANGED <<channel, first_frame, enc, child, stdin, received, subExit>>

DepadNext == DepadCall

DepadSpec == DepadInit /\ [][DepadNext]_vars

Even(n) == n % 2 = 0

\* C11: for even width and height and stride >= width, every call of either
\* depad function on a frame that holds the planes leaves exactly
\* width * height * 3 / 2 bytes in the scratch buffer, whatever the stride and
\* whatever the buffer held before; a call aborts only on a frame shorter than
\* the planes.
C11_DepadLengthIsCompactSize ==
    (enc # <<>> /\ Even(enc[1].width) /\ Even(enc[1].height)
                /\ enc[1].stride >= enc[1].width /\ subPc \in {"depad", "panicked"}) =>
        /\ \A i \in 1..Len(pipe) :
              Len(pipe[i]) = (enc[1].width * enc[1].height * 3) \div 2
        /\ subPc = "panicked" =>
              first_frame[1].len < DepadInputLen(enc[1].depad_fn, enc[1].height, enc[1].stride)
        /\ first_frame[1].len < DepadInputLen(enc[1].depad_fn, enc[1].height, enc[1].stride) =>
              pipe = <<>>

\* The second call on a 2x2 frame with 16 bytes of padding, for both functions
C11_Witness ==
    /\ subPc = "depad"
    /\ Len(pipe) = 2
    /\ enc[1].width = 2 /\ enc[1].height = 2 /\ enc[1].stride = 18
    /\ enc[1].depad_fn = "depad_yuv420"
    /\ Len(depadded) = 6

\* The planes of a frame in order, as rows: the width of a source row, the
\* width of a destination row and the number of rows
RefPlanes(fn, width, height, stride) ==
    IF fn = "depad_yuv420"
    THEN << [srow |-> stride, drow |-> width, rows |-> height],
            [srow |-> stride \div 2, drow |-> width \div 2, rows |-> height \div 2],
            [srow |-> stride \div 2, drow |-> width \div 2, rows |-> height \div 2] >>
    ELSE << [srow |-> stride, drow |-> width, rows |-> height],
            [srow |-> stride, drow |-> width, rows |-> height \div 2] >>

\* Where plane i starts in the source: after the planes before it
RECURSIVE RefStart(_, _)
RefStart(planes, i) ==
    IF i = 1 THEN 0
    ELSE RefStart(planes, i - 1) + planes[i - 1].srow * planes[i - 1].rows

\* Byte k of the row copy of a plane is column (k - 1) % drow of row
\* (k - 1) \div drow of the source plane
RefPlane(src, start, p) ==
    [k \in 1..(p.rows * p.drow) |->
        src[start + ((k - 1) \div p.drow) * p.srow + ((k - 1) % p.drow) + 1]]

RECURSIVE RefCopy(_, _, _)
RefCopy(src, planes, i) ==
    IF i > Len(planes) THEN <<>>
    ELSE RefPlane(src, RefStart(planes, i), planes[i]) \o RefCopy(src, planes, i + 1)

\* C12: for even width and height and stride >= width, what a depad call
\* leaves in the scratch buffer is the reference row copy of the planes in
\* order (the first drow bytes of each source row of srow bytes); the bytes
\* kept stay in source order, none twice.
C12_DepadIsRowCopy ==
    (enc # <<>> /\ subPc \in {"depad", "panicked"}) =>
        LET e == enc[1]
            src == Payload(first_frame[1])
            ref == RefCopy(src, RefPlanes(e.depad_fn, e.width, e.height, e.stride), 1)
        IN  \A i \in 1..Len(pipe) :
              /\ pipe[i] = ref
              /\ \A j, k \in 1..Len(pipe[i]) : j < k => pipe[i][j] < pipe[i][k]

\* A two-plane call with sixteen bytes of padding: the second row of the
\* output starts at the second row of the source
C12_Witness ==
    /\ subPc = "depad"
    /\ pipe # <<>>
    /\ enc[1].width = 4 /\ enc[1].height = 4 /\ enc[1].stride = 20
    /\ enc[1].depad_fn = "depad_nv12"
    /\ pipe[1][5] = first_frame[1].data[21]

CompactLen(e) == (e.width * e.height * 3) \div 2

\* C13 as claimed: on a frame with stride == width, a depad call returns
\* data[..len], the bytes the passthrough path writes, whatever len is.
C13_DepadIsIdentityOnCompact ==
    (enc # <<>> /\ subPc \in {"depad", "panicked"} /\ enc[1].stride = enc[1].width) =>
        /\ subPc # "panicked"
        /\ \A i \in 1..Len(pipe) : pipe[i] = Payload(first_frame[1])

\* C13: on a frame with stride == width and even width and height, a depad
\* call returns data[..len] exactly when len == width * height * 3 / 2; for a
\* longer len it returns the first width * height * 3 / 2 bytes only, and for
\* a shorter len it aborts.
C13_DepadIsIdentityOnCompactLen ==
    (enc # <<>> /\ subPc \in {"depad", "panicked"} /\ enc[1].stride = enc[1].width) =>
        LET f == first_frame[1] IN
        /\ f.len = CompactLen(enc[1]) =>
              /\ subPc # "panicked"
              /\ \A i \in 1..Len(pipe) : pipe[i] = Payload(f)
        /\ f.len > CompactLen(enc[1]) =>
              /\ subPc # "panicked"
              /\ \A i \in 1..Len(pipe) :
                    pipe[i] = Slice(f.data, 0, CompactLen(enc[1])) /\ pipe[i] # Payload(f)
        /\ f.len < CompactLen(enc[1]) => pipe = <<>>

\* A compact 4x4 frame of 24 bytes went through the three-plane function twice
C13_Witness ==
    /\ subPc = "depad"
    /\ Len(pipe) = 2
    /\ enc[1].stride = enc[1].width
    /\ enc[1].width = 4 /\ enc[1].height = 4
    /\ enc[1].depad_fn = "depad_yuv420"
    /\ first_frame[1].len = 24
    /\ depadded = Payload(first_frame[1])

(***************************************************************************)
(* frame.rs: the layout of the Frame record                                *)
(***************************************************************************)
\* Mutant of AlignUp: fields are packed without padding
AlignUpPacked(n, a) == n

\* The next multiple of the alignment a at or after offset n
AlignUp(n, a) == ((n + a - 1) \div a) * a

\* frame.rs 16-28: the fields of #[repr(C)] struct Frame in declaration order,
\* with the size and alignment of their types (u64, u32, the #[repr(C)]
\* fieldless enum PixelFormat as a C int, [u8; MAX_FRAME_SIZE])
FrameFields ==
    << [name |-> "timestamp_ns", size |-> 8, align |-> 8],
       [name |-> "sequence", size |-> 8, align |-> 8],
       [name |-> "width", size |-> 4, align |-> 4],
       [name |-> "height", size |-> 4, align |-> 4],
       [name |-> "stride", size |-> 4, align |-> 4],
       [name |-> "format", size |-> 4, align |-> 4],
       [name |-> "len", size |-> 4, align |-> 4],
       [name |-> "data", size |-> MAX_FRAME_SIZE, align |-> 1] >>

\* #[repr(C)]: each field at the next offset of its alignment after the field
\* before it
RECURSIVE FieldOffset(_, _)
FieldOffset(fields, i) ==
    IF i = 1 THEN 0
    ELSE AlignUp(FieldOffset(fields, i - 1) + fields[i - 1].size, fields[i].align)

\* the alignment of the struct is the largest alignment of a field
RECURSIVE StructAlign(_, _)
StructAlign(fields, i) ==
    IF i > Len(fields) THEN 1
    ELSE IF fields[i].align > StructAlign(fields, i + 1) THEN fields[i].align
    ELSE StructAlign(fields, i + 1)

\* size_of: the end of the last field, rounded up to the struct's alignment
SizeOf(fields) ==
    AlignUp(FieldOffset(fields, Len(fields)) + fields[Len(fields)].size,
            StructAlign(fields, 1))

RECURSIVE SumUsed(_, _)
SumUsed(planes, i) ==
    IF i > Len(planes) THEN 0 ELSE BytesUsed(planes[i]) + SumUsed(planes, i + 1)

\* No plane reports more bytes than are mapped
WithinPlanes(planes) == \A i \in 1..Len(planes) : BytesUsed(planes[i]) <= planes[i].length

\* A buffer whose planes total exactly MAX_FRAME_SIZE bytes is copied whole
\* and passes the publish test
ExactFitIsCopied ==
    \A planes \in PlaneLists :
        (WithinPlanes(planes) /\ SumUsed(planes, 1) = MAX_FRAME_SIZE) =>
            /\ CopyPlanes(planes).end = "done"
            /\ CopyPlanes(planes).offset = MAX_FRAME_SIZE
            /\ ShouldPublish(CopyPlanes(planes).offset)

\* C15: every frame record the publisher sends has 0 < len <= MAX_FRAME_SIZE,
\* and a buffer whose planes total exactly MAX_FRAME_SIZE bytes is copied
\* whole and passes the publish test with len == MAX_FRAME_SIZE.
C15_PublishedLenInRange ==
    /\ \A i \in 1..Len(published) :
          0 < published[i].len /\ published[i].len <= MAX_FRAME_SIZE
    /\ ExactFitIsCopied

\* A frame of exactly MAX_FRAME_SIZE bytes was sent
C15_Witness ==
    /\ published # <<>>
    /\ Last(published).len = MAX_FRAME_SIZE
    /\ Last(handled).fault = "none"
    /\ Last(handled).outcome = "sent"

\* C16: every frame record the publisher sends has stride >= width, and even
\* width and height when its format is Yuv420, Nv12 or Nv21.
C16_PublishedGeometryIsSound ==
    \A i \in 1..Len(published) :
        /\ published[i].stride >= published[i].width
        /\ published[i].format \in {"Yuv420", "Nv12", "Nv21"} =>
              (Even(published[i].width) /\ Even(published[i].height))

\* C17: for every frame record the publisher can send, short ones included,
\* slicing data[..len] and depadding complete: once the first frame is
\* written, the subscriber's loop never aborts while it processes a frame.
C17_FrameProcessingNeverAborts ==
    pipe # <<>> =>
        /\ subPc # "panicked"
        /\ subExit # <<>> => subExit[1].error # "panic"

\* C18: the publisher copies min(bytes_used, plane length) bytes of each
\* plane at the running offset and len is their sum; a plane that reports more
\* bytes than are mapped does not abort the capture loop.
C18_OverlongPlaneDoesNotAbort == pubPc # "panicked"

(***************************************************************************)
(* Properties of the publisher's startup and of the sequence counter       *)
(***************************************************************************)
\* C19: the transport is open before the camera is acquired, the completion
\* callback is registered before the camera is started, no request is queued
\* (and so none completes) before the camera is started, every completion
\* reaches the channel, and every request queued at the camera has exactly
\* one buffer attached.
C19_StartupIsOrdered ==
    /\ "camera" \in owns => "publisher" \in owns
    /\ started => (sink /\ owns = {"publisher", "camera"})
    /\ (camQueue # <<>> \/ clock > 0) => started
    /\ ~started => (completions = <<>> /\ held = <<>>)
    /\ clock > 0 => sink
    /\ \A i \in 1..Len(camQueue) : camQueue[i].buffers = 1
    /\ \A i \in 1..Len(requests) : requests[i].buffers = 1

\* Both requests were queued after the start, one has completed and has been
\* queued again
C19_Witness ==
    /\ started /\ sink
    /\ pubPc = "recv"
    /\ handled # <<>> /\ Last(handled).requeued
    /\ Len(camQueue) = NBuf
    /\ \A i \in 1..Len(camQueue) : camQueue[i].buffers = 1

\* C20: when the loop handles a completion whose planes yield zero bytes, no
\* slot is loaned, no sample is sent, seq keeps its value and the request is
\* still handed to cam.queue_request; seq always equals the number of
\* completions handled so far that copied at least one byte, and that is the
\* sequence a frame is sent with.
C20_ZeroByteCaptureKeepsSequence ==
    [][Handles =>
          LET e == Last(handled') IN
          /\ (e.fault = "none" /\ ~e.copied) =>
                /\ e.outcome = "none"
                /\ published' = published
                /\ seq' = seq
                /\ IF e.requeued
                   THEN camQueue' = Append(camQueue, held[1].req)
                   ELSE pubPc' = "exit_err"
          /\ seq = copies
          /\ seq' = copies'
          /\ published' # published => Last(published').sequence = copies]_vars

\* After a frame was sent, a capture of zero bytes was handled and its request
\* queued again; the counter still has the value the frame left
C20_Witness ==
    /\ Len(handled) = 2
    /\ handled[1].outcome = "sent"
    /\ handled[2].fault = "none" /\ ~handled[2].copied /\ handled[2].requeued
    /\ seq = handled[1].seq + 1
    /\ seq = copies
    /\ published # <<>> /\ Last(published).sequence = seq - 1

====
